---- MODULE Spec2Model ----
(***************************************************************************)
(* Model of the seren-sync Signal K plugin (src/index.js): per-category    *)
(* Unix-socket connections with reconnect supervision, and the ingestion   *)
(* pipeline classify -> filter -> throttle -> write.                       *)
(*                                                                         *)
(* Sockets are objects of the Node runtime.  A socket is visible to the    *)
(* plugin through socketClients[category]; a socket whose handle has been  *)
(* overwritten or nulled keeps its 'close' handler and is kept in          *)
(* detached[category] until its 'close' event has been emitted.            *)
(***************************************************************************)
EXTENDS Integers, Sequences, FiniteSets, TLC

VARIABLES
    isShuttingDown,         \* src/index.js:8
    socketClients,          \* src/index.js:6   category -> state of the referenced socket
    detached,               \* sockets no longer referenced, 'close' not yet emitted
    reconnectTimers,        \* src/index.js:7   category -> handle
    pendingTimers,          \* armed timeouts of the event loop, per category
    deltaStreamUnsubscribe, \* src/index.js:5
    subscribers,            \* registrations of processValueObj on the value stream
    lastTransmissionTimes,  \* src/index.js:9   path -> epoch ms, 0 when there is no entry
    pluginOptions,          \* plugin.options, src/index.js:100
    now,                    \* the value Date.now() returns
    starts,                 \* number of plugin.start calls made
    lastEvent               \* the handler that ran last, and what it observed

vars == <<isShuttingDown, socketClients, detached, reconnectTimers, pendingTimers,
          deltaStreamUnsubscribe, subscribers, lastTransmissionTimes, pluginOptions,
          now, starts, lastEvent>>

----------------------------------------------------------------------------
\* Bounds of the model

\* plugin.start calls explored by SpecReconnect
MaxStarts == 2

\* milliseconds the clock advances beyond Now0 in SpecThrottle
MaxElapsed == 3

\* Date.now() when the plugin is loaded: an epoch time, larger than every interval
Now0 == 5000

----------------------------------------------------------------------------
\* Object.keys(SOCKET_CONFIG), in insertion order
SOCKET_CONFIG == <<"sensor", "position", "state">>

Categories == {SOCKET_CONFIG[i] : i \in 1..Len(SOCKET_CONFIG)}

Null == "null"

\* States of a net.Socket: created by net.createConnection ("connecting"),
\* after 'connect' ("connected"), destroyed by destroy() or by an error with
\* 'close' still to be emitted ("destroyed"), after 'close' ("closed").
SocketStates == {"connecting", "connected", "destroyed", "closed"}

LiveStates == {"connecting", "connected"}

\* The sockets held in detached[c], counted by state.  The handlers of a socket
\* that is no longer referenced do nothing but log until 'close', so that it
\* matters only whether the socket is still open (connecting or connected) or
\* destroyed with 'close' to come.
NoDetached == [s \in {"open", "destroyed"} |-> 0]

Detach(bag, s) ==
    IF s \in LiveStates THEN [bag EXCEPT !["open"] = @ + 1]
    ELSE IF s = "destroyed" THEN [bag EXCEPT !["destroyed"] = @ + 1]
    ELSE bag

\* The module-level state of the plugin together with the runtime objects it
\* created, as one value the handlers transform.  The remaining fields collect
\* what the running handler did: created and armed are the categories for which
\* it called net.createConnection and setTimeout, stopped what plugin.stop
\* called of clearTimeout, deltaStreamUnsubscribe and destroy, writes the
\* socket.write calls, thrown whether an exception is propagating, failed
\* whether JSON.stringify threw, stage where processValueObj returned, last
\* and at the values shouldTransmit compared.
State ==
    [isShuttingDown |-> isShuttingDown, socketClients |-> socketClients,
     detached |-> detached, reconnectTimers |-> reconnectTimers,
     pendingTimers |-> pendingTimers,
     deltaStreamUnsubscribe |-> deltaStreamUnsubscribe, subscribers |-> subscribers,
     lastTransmissionTimes |-> lastTransmissionTimes, options |-> pluginOptions,
     now |-> now,
     created |-> {}, armed |-> {}, stopped |-> {}, writes |-> <<>>,
     thrown |-> FALSE, failed |-> FALSE, stage |-> Null, last |-> 0, at |-> 0]

----------------------------------------------------------------------------
\* The paths of the raw values the value stream delivers
Paths ==
    {"navigation.position", "navigation.speedOverGround", "environment.mode",
     "electrical.batteries.279.voltage", "design.length"}

\* the characters of a path
Chars(path) ==
    CASE path = "navigation.position" ->
           <<"n", "a", "v", "i", "g", "a", "t", "i", "o", "n", ".", "p", "o", "s", "i", "t", "i", "o", "n">>
      [] path = "navigation.speedOverGround" ->
           <<"n", "a", "v", "i", "g", "a", "t", "i", "o", "n", ".", "s", "p", "e", "e", "d", "O", "v", "e", "r", "G", "r", "o", "u", "n", "d">>
      [] path = "environment.mode" ->
           <<"e", "n", "v", "i", "r", "o", "n", "m", "e", "n", "t", ".", "m", "o", "d", "e">>
      [] path = "electrical.batteries.279.voltage" ->
           <<"e", "l", "e", "c", "t", "r", "i", "c", "a", "l", ".", "b", "a", "t", "t", "e", "r", "i", "e", "s", ".", "2", "7", "9", ".", "v", "o", "l", "t", "a", "g", "e">>
      [] path = "design.length" ->
           <<"d", "e", "s", "i", "g", "n", ".", "l", "e", "n", "g", "t", "h">>

Digits == {"0", "1", "2", "3", "4", "5", "6", "7", "8", "9"}

\* . of a regular expression matches every character but a line terminator
Dot(ch) == ch \notin {"\n", "\r"}

\* the items of a pattern from the i-th on match str from position j to its end
RECURSIVE Match(_, _, _, _)
Match(items, i, str, j) ==
    IF i > Len(items) THEN j = Len(str) + 1
    ELSE LET it == items[i]
         IN  CASE it.k = "lit" ->
                    /\ j + Len(it.s) - 1 <= Len(str)
                    /\ \A n \in 1..Len(it.s) : str[j + n - 1] = it.s[n]
                    /\ Match(items, i + 1, str, j + Len(it.s))
               [] it.k = "any" ->
                    j <= Len(str) /\ Dot(str[j]) /\ Match(items, i + 1, str, j + 1)
               [] it.k = "set" ->
                    j <= Len(str) /\ str[j] \in it.cs /\ Match(items, i + 1, str, j + 1)
               [] it.k = "digits" ->
                    \E e \in j..Len(str) :
                        /\ \A n \in j..e : str[n] \in Digits
                        /\ Match(items, i + 1, str, e + 1)
               [] it.k = "star" ->
                    \E e \in (j - 1)..Len(str) :
                        /\ \A n \in j..e : Dot(str[n])
                        /\ Match(items, i + 1, str, e + 1)

\* const CATEGORY_PATTERNS: each regular expression as the sequence of its items,
\* anchored at both ends; (.*) is "star", an unescaped . is "any", [0-9]+ is
\* "digits", (m|M) and [cC] are "set".  The keys are in insertion order.
CATEGORY_PATTERNS == <<
    [category |-> "dump", patterns |-> <<
       \* /^(.*)(totalPanel)(.*)$/
       <<[k |-> "star"],
         [k |-> "lit", s |-> <<"t", "o", "t", "a", "l", "P", "a", "n", "e", "l">>],
         [k |-> "star"]>>,
       \* /^(.*)(ModeNumber)(.*)$/
       <<[k |-> "star"],
         [k |-> "lit", s |-> <<"M", "o", "d", "e", "N", "u", "m", "b", "e", "r">>],
         [k |-> "star"]>>,
       \* /^(.*)(consumedCharge)(.*)$/
       <<[k |-> "star"],
         [k |-> "lit", s |-> <<"c", "o", "n", "s", "u", "m", "e", "d", "C", "h", "a", "r", "g", "e">>],
         [k |-> "star"]>>,
       \* /^(electrical\.batteries.279)(.*)$/
       <<[k |-> "lit", s |-> <<"e", "l", "e", "c", "t", "r", "i", "c", "a", "l", ".", "b", "a", "t", "t", "e", "r", "i", "e", "s">>],
         [k |-> "any"],
         [k |-> "lit", s |-> <<"2", "7", "9">>],
         [k |-> "star"]>>>>],
    [category |-> "state", patterns |-> <<
       \* /^(.*)((m|M)ode)$/
       <<[k |-> "star"],
         [k |-> "set", cs |-> {"m", "M"}],
         [k |-> "lit", s |-> <<"o", "d", "e">>]>>,
       \* /^(.*)\.(name)$/
       <<[k |-> "star"],
         [k |-> "lit", s |-> <<".", "n", "a", "m", "e">>]>>,
       \* /^(.*)\.(state)$/
       <<[k |-> "star"],
         [k |-> "lit", s |-> <<".", "s", "t", "a", "t", "e">>]>>,
       \* /^(electrical\.batteries\.)([0-9]+)(\.capacity\.dischargedEnergy)$/
       <<[k |-> "lit", s |-> <<"e", "l", "e", "c", "t", "r", "i", "c", "a", "l", ".", "b", "a", "t", "t", "e", "r", "i", "e", "s", ".">>],
         [k |-> "digits"],
         [k |-> "lit", s |-> <<".", "c", "a", "p", "a", "c", "i", "t", "y", ".", "d", "i", "s", "c", "h", "a", "r", "g", "e", "d", "E", "n", "e", "r", "g", "y">>]>>,
       \* /^(electrical\.batteries\.)([0-9]+)(\.capacity\.stateOfCharge)$/
       <<[k |-> "lit", s |-> <<"e", "l", "e", "c", "t", "r", "i", "c", "a", "l", ".", "b", "a", "t", "t", "e", "r", "i", "e", "s", ".">>],
         [k |-> "digits"],
         [k |-> "lit", s |-> <<".", "c", "a", "p", "a", "c", "i", "t", "y", ".", "s", "t", "a", "t", "e", "O", "f", "C", "h", "a", "r", "g", "e">>]>>,
       \* /^(electrical\.batteries\.)([0-9]+)(\.lifetimeDischarge)$/
       <<[k |-> "lit", s |-> <<"e", "l", "e", "c", "t", "r", "i", "c", "a", "l", ".", "b", "a", "t", "t", "e", "r", "i", "e", "s", ".">>],
         [k |-> "digits"],
         [k |-> "lit", s |-> <<".", "l", "i", "f", "e", "t", "i", "m", "e", "D", "i", "s", "c", "h", "a", "r", "g", "e">>]>>,
       \* /^(electrical\.solar\.)([0-9]+)(\.systemYield)$/
       <<[k |-> "lit", s |-> <<"e", "l", "e", "c", "t", "r", "i", "c", "a", "l", ".", "s", "o", "l", "a", "r", ".">>],
         [k |-> "digits"],
         [k |-> "lit", s |-> <<".", "s", "y", "s", "t", "e", "m", "Y", "i", "e", "l", "d">>]>>,
       \* /^(electrical\.solar\.)([0-9]+)(\.yieldToday)$/
       <<[k |-> "lit", s |-> <<"e", "l", "e", "c", "t", "r", "i", "c", "a", "l", ".", "s", "o", "l", "a", "r", ".">>],
         [k |-> "digits"],
         [k |-> "lit", s |-> <<".", "y", "i", "e", "l", "d", "T", "o", "d", "a", "y">>]>>,
       \* /^(electrical\.solar\.)([0-9]+)(\.yieldYesterday)$/
       <<[k |-> "lit", s |-> <<"e", "l", "e", "c", "t", "r", "i", "c", "a", "l", ".", "s", "o", "l", "a", "r", ".">>],
         [k |-> "digits"],
         [k |-> "lit", s |-> <<".", "y", "i", "e", "l", "d", "Y", "e", "s", "t", "e", "r", "d", "a", "y">>]>>,
       \* /^(navigation\.courseRhumbline\.nextPoint\.position)$/
       <<[k |-> "lit", s |-> <<"n", "a", "v", "i", "g", "a", "t", "i", "o", "n", ".", "c", "o", "u", "r", "s", "e", "R", "h", "u", "m", "b", "l", "i", "n", "e", ".", "n", "e", "x", "t", "P", "o", "i", "n", "t", ".", "p", "o", "s", "i", "t", "i", "o", "n">>]>>,
       \* /^(navigation\.currentRoute\.)(.*)$/
       <<[k |-> "lit", s |-> <<"n", "a", "v", "i", "g", "a", "t", "i", "o", "n", ".", "c", "u", "r", "r", "e", "n", "t", "R", "o", "u", "t", "e", ".">>],
         [k |-> "star"]>>,
       \* /^(navigation\.gns)(.*)$/
       <<[k |-> "lit", s |-> <<"n", "a", "v", "i", "g", "a", "t", "i", "o", "n", ".", "g", "n", "s">>],
         [k |-> "star"]>>,
       \* /^(navigation\.magneticVariation)$/
       <<[k |-> "lit", s |-> <<"n", "a", "v", "i", "g", "a", "t", "i", "o", "n", ".", "m", "a", "g", "n", "e", "t", "i", "c", "V", "a", "r", "i", "a", "t", "i", "o", "n">>]>>,
       \* /^(navigation\.trip\.log)$/
       <<[k |-> "lit", s |-> <<"n", "a", "v", "i", "g", "a", "t", "i", "o", "n", ".", "t", "r", "i", "p", ".", "l", "o", "g">>]>>,
       \* /^(notifications)(.*)$/
       <<[k |-> "lit", s |-> <<"n", "o", "t", "i", "f", "i", "c", "a", "t", "i", "o", "n", "s">>],
         [k |-> "star"]>>,
       \* /^(sensors\.ais)(.*)$/
       <<[k |-> "lit", s |-> <<"s", "e", "n", "s", "o", "r", "s", ".", "a", "i", "s">>],
         [k |-> "star"]>>,
       \* /^(steering)(.*)$/
       <<[k |-> "lit", s |-> <<"s", "t", "e", "e", "r", "i", "n", "g">>],
         [k |-> "star"]>>>>],
    [category |-> "position", patterns |-> <<
       \* /^(navigation\.position)$/
       <<[k |-> "lit", s |-> <<"n", "a", "v", "i", "g", "a", "t", "i", "o", "n", ".", "p", "o", "s", "i", "t", "i", "o", "n">>]>>>>],
    [category |-> "sensor", patterns |-> <<
       \* /^(.*)([cC]urrent)$/
       <<[k |-> "star"],
         [k |-> "set", cs |-> {"c", "C"}],
         [k |-> "lit", s |-> <<"u", "r", "r", "e", "n", "t">>]>>,
       \* /^(.*)([pP]ower)$/
       <<[k |-> "star"],
         [k |-> "set", cs |-> {"p", "P"}],
         [k |-> "lit", s |-> <<"o", "w", "e", "r">>]>>,
       \* /^(.*)([vV]oltage)$/
       <<[k |-> "star"],
         [k |-> "set", cs |-> {"v", "V"}],
         [k |-> "lit", s |-> <<"o", "l", "t", "a", "g", "e">>]>>,
       \* /^(.*)([tT]emperature)$/
       <<[k |-> "star"],
         [k |-> "set", cs |-> {"t", "T"}],
         [k |-> "lit", s |-> <<"e", "m", "p", "e", "r", "a", "t", "u", "r", "e">>]>>,
       \* /^(environment)(.*)$/
       <<[k |-> "lit", s |-> <<"e", "n", "v", "i", "r", "o", "n", "m", "e", "n", "t">>],
         [k |-> "star"]>>,
       \* /^(navigation)(.*)$/
       <<[k |-> "lit", s |-> <<"n", "a", "v", "i", "g", "a", "t", "i", "o", "n">>],
         [k |-> "star"]>>>>]>>

\* pattern.test(path)
test(pattern, path) == Match(pattern, 1, Chars(path), 1)

\* CATEGORY_PATTERNS[category]
PatternsOf(category) ==
    LET i == CHOOSE n \in 1..Len(CATEGORY_PATTERNS) :
                 CATEGORY_PATTERNS[n].category = category
    IN  CATEGORY_PATTERNS[i].patterns

\* for (const pattern of patterns) if (pattern.test(path)) ...
SomePatternMatches(patterns, path) ==
    \E n \in 1..Len(patterns) : test(patterns[n], path)

\* the loop with another default than 'dump'
RECURSIVE categorizeFromDefaultSensor(_, _)
categorizeFromDefaultSensor(i, path) ==
    IF i > Len(CATEGORY_PATTERNS) THEN "sensor"
    ELSE LET e == CATEGORY_PATTERNS[i]
         IN  IF e.category # "dump" /\ SomePatternMatches(e.patterns, path)
             THEN e.category
             ELSE categorizeFromDefaultSensor(i + 1, path)

\* the loop taking the entries from the last to the first
RECURSIVE categorizeFromReversed(_, _)
categorizeFromReversed(i, path) ==
    IF i > Len(CATEGORY_PATTERNS) THEN "dump"
    ELSE LET e == CATEGORY_PATTERNS[Len(CATEGORY_PATTERNS) + 1 - i]
         IN  IF e.category # "dump" /\ SomePatternMatches(e.patterns, path)
             THEN e.category
             ELSE categorizeFromReversed(i + 1, path)

\* categorizeData: the loop over Object.entries(CATEGORY_PATTERNS), from entry i
RECURSIVE categorizeFrom(_, _)
categorizeFrom(i, path) ==
    IF i > Len(CATEGORY_PATTERNS) THEN "dump"
    ELSE LET e == CATEGORY_PATTERNS[i]
         IN  IF e.category # "dump" /\ SomePatternMatches(e.patterns, path)
             THEN e.category
             ELSE categorizeFrom(i + 1, path)

\* categorizeData without the first loop over the dump patterns
categorizeDataDumpLast(path) == categorizeFrom(1, path)

\* function categorizeData(path)
categorizeData(path) ==
    IF SomePatternMatches(PatternsOf("dump"), path) THEN "dump"
    ELSE categorizeFrom(1, path)

\* categorizeData on the paths of the model, computed once
Classification == [p \in Paths |-> categorizeData(p)]

----------------------------------------------------------------------------
\* Raw values.  path "" is a missing or empty path; a value is undefined, a
\* number or an object, an object possibly with latitude and longitude and
\* possibly cyclic.
Undefined == [t |-> "undefined"]

Num(n) == [t |-> "number", n |-> n]

ObjectValue(lat, lon, cyclic) ==
    [type |-> "object", latitude |-> lat, longitude |-> lon, cyclic |-> cyclic]

Values ==
    { [type |-> "undefined"], [type |-> "number"],
      ObjectValue(Undefined, Undefined, TRUE),
      ObjectValue(Num(0), Num(12), FALSE), ObjectValue(Num(45), Num(0), FALSE),
      ObjectValue(Num(45), Num(12), FALSE),
      ObjectValue([t |-> "null"], Num(12), FALSE) }

\* A JavaScript number n >= 0 of a timestamp, exactly: n = hi * 10^6 + lo +
\* frac / 1000, with 0 <= lo < 10^6 and 0 <= frac < 1000
Million == 1000 * 1000

Number(hi, lo, frac) == [t |-> "number", hi |-> hi, lo |-> lo, frac |-> frac]

NaN == [t |-> "NaN"]

\* Date.now() as such a number
FromInt(n) == Number(n \div Million, n % Million, 0)

\* the literal 1e12
Threshold == Number(Million, 0, 0)

\* a > b
GreaterThan(a, b) ==
    \/ a.hi > b.hi
    \/ a.hi = b.hi /\ a.lo > b.lo
    \/ a.hi = b.hi /\ a.lo = b.lo /\ a.frac > b.frac

\* Math.floor(x)
Floor(x) == IF x.t = "NaN" THEN NaN ELSE [x EXCEPT !.frac = 0]

\* x * 1000
Times1000(x) ==
    LET low == x.lo * 1000 + x.frac
    IN  Number(x.hi * 1000 + low \div Million, low % Million, 0)

\* new Date(s).getTime(): the epoch milliseconds of a date string, NaN for a
\* string that is no date
DateGetTime(s) ==
    CASE s = "2023-09-11T18:48:43.456Z" -> Number(1694458, 123456, 0)
      [] s = "2023-09-11T18:48:43Z" -> Number(1694458, 123000, 0)
      [] OTHER -> NaN

String(s) == [t |-> "string", s |-> s]

\* the timestamps of raw values: missing, 0 and "" (falsy), epoch seconds,
\* epoch seconds with a fraction, the threshold itself, epoch milliseconds
\* with and without a fraction, date strings, a string that is no date, and
\* values that are neither strings nor numbers
AllTimestamps ==
    { Undefined, Number(0, 0, 0), String(""),
      Number(0, 1694, 458), Number(1694, 458123, 0), Number(1694, 458123, 456),
      Threshold, Number(Million, 0, 1), Number(Million, 1, 0),
      Number(1694458, 123456, 0), Number(1694458, 123456, 700),
      String("2023-09-11T18:48:43.456Z"), String("2023-09-11T18:48:43Z"),
      String("yesterday"),
      [t |-> "boolean"], [t |-> "object"] }

\* !timestamp
Falsy(timestamp) ==
    \/ timestamp.t = "undefined"
    \/ timestamp.t = "number" /\ timestamp.hi = 0 /\ timestamp.lo = 0 /\ timestamp.frac = 0
    \/ timestamp.t = "string" /\ timestamp.s = ""

\* the comparison of the threshold with >= for >
isMillisecondsInclusive(timestamp) ==
    GreaterThan(timestamp, Threshold) \/ timestamp = Threshold

\* timestamp > 1e12
isMilliseconds(timestamp) == GreaterThan(timestamp, Threshold)

\* processValueObj: the computation of timestampMs; nowMs is Date.now()
timestampMs(timestamp, nowMs) ==
    CASE timestamp.t = "string" -> Floor(DateGetTime(timestamp.s))
      [] timestamp.t = "number" ->
             IF isMilliseconds(timestamp) THEN Floor(timestamp)
             ELSE Floor(Times1000(timestamp))
      [] OTHER -> FromInt(nowMs)

\* the timestamps of the raw values of Spec, SpecThrottle: a missing one and
\* epoch seconds
Timestamps == {Undefined, Number(1694, 458123, 0)}

\* a null valueObj
NullValueObj == [null |-> TRUE]

\* the objects the stream delivers
RawValues ==
    {NullValueObj} \cup
    { [path |-> p, value |-> v, timestamp |-> t] :
        p \in Paths \cup {""}, v \in Values, t \in Timestamps }

\* a valid numeric value of a sensor path and of a state path
ForwardableValues ==
    { [path |-> p, value |-> [type |-> "number"],
       timestamp |-> Number(1694, 458123, 0)] :
        p \in {"navigation.speedOverGround", "environment.mode"} }

\* numeric values with every timestamp
TimestampedValues ==
    { [path |-> p, value |-> [type |-> "number"], timestamp |-> ts] :
        p \in {"navigation.speedOverGround"}, ts \in AllTimestamps }

\* navigation.position with every value
PositionValues ==
    { [path |-> "navigation.position", value |-> v,
       timestamp |-> Number(1694, 458123, 0)] : v \in Values }

ObservedValues == TimestampedValues \cup PositionValues

\* plugin.options before plugin.start has set it, and a call start() without
\* options
UndefinedOptions == [undefined |-> TRUE]

\* plugin.options as the host passes them; 0 is a missing (or zero) property
NoOptions ==
    [positionSampleRate |-> 0, sensorSampleRate |-> 0, stateSampleRate |-> 0]

Options ==
    { NoOptions,
      [positionSampleRate |-> 2, sensorSampleRate |-> 3, stateSampleRate |-> 1] }

\* x || d, for a number or a missing x
OrElse(x, d) == IF x = 0 THEN d ELSE x

\* shouldTransmit: the switch choosing sampleRate
sampleRate(options, category) ==
    CASE category = "position" -> OrElse(options.positionSampleRate, 1000)
      [] category = "sensor" -> OrElse(options.sensorSampleRate, 2000)
      [] category = "state" -> OrElse(options.stateSampleRate, 500)
      [] OTHER -> 1000

\* the comparison with > for >=
elapsedEnoughStrict(nowMs, lastTransmissionTime, rate) ==
    (nowMs - lastTransmissionTime) > rate

\* shouldTransmit: the comparison
elapsedEnough(nowMs, lastTransmissionTime, rate) ==
    (nowMs - lastTransmissionTime) >= rate

\* function shouldTransmit(path, category, timestamp)
shouldTransmit(s, path, category) ==
    elapsedEnough(s.now, s.lastTransmissionTimes[path],
                  sampleRate(s.options, category))

\* Number(x) === 0 for a coordinate of the model: Number(undefined) is NaN,
\* Number(null) is 0
NumberIsZero(x) == x.t = "null" \/ (x.t = "number" /\ x.n = 0)

\* socketClient.destroyed
destroyed(socket) == socket \in {"destroyed", "closed"}

\* socketClient.writable: true from net.createConnection until the socket is
\* ended or destroyed; a write on a connecting socket is queued by the runtime
writable(socket) == socket \in {"connecting", "connected"}

\* writeToSocket destroying the socket when the record cannot be serialized
writeToSocketBodyDestroys(s, category, data) ==
    LET socketClient == s.socketClients[category]
    IN  IF socketClient = Null \/ destroyed(socketClient) \/ ~writable(socketClient)
        THEN s
        ELSE IF data.value.type = "object" /\ data.value.cyclic
             THEN [s EXCEPT !.thrown = TRUE, !.failed = TRUE,
                            !.socketClients[category] = "destroyed"]
             ELSE [s EXCEPT !.writes =
                       Append(@, [category |-> category, path |-> data.path,
                                  time |-> data.time, socket |-> socketClient])]

\* function writeToSocket(category, data), the body of its try block
writeToSocketBody(s, category, data) ==
    LET socketClient == s.socketClients[category]
    IN  IF socketClient = Null \/ destroyed(socketClient) \/ ~writable(socketClient)
        THEN s
        ELSE IF data.value.type = "object" /\ data.value.cyclic
             THEN [s EXCEPT !.thrown = TRUE, !.failed = TRUE]  \* JSON.stringify throws
             ELSE [s EXCEPT !.writes =
                       Append(@, [category |-> category, path |-> data.path,
                                  time |-> data.time, socket |-> socketClient])]

\* try { ... } catch (error) { app.error(...) }
Caught(s) == [s EXCEPT !.thrown = FALSE]

\* writeToSocket writing to one socket whatever the category, as the
\* single-socket version of the plugin did
writeToSocketSingle(s, category, data) ==
    Caught(writeToSocketBody(s, "sensor", data))

\* function writeToSocket(category, data)
writeToSocket(s, category, data) == Caught(writeToSocketBody(s, category, data))

\* processValueObj: the position filter with && for ||
isDegenerateBoth(category, value) ==
    /\ category = "position"
    /\ value.type = "object"
    /\ (NumberIsZero(value.latitude) /\ NumberIsZero(value.longitude))

\* processValueObj: the condition of the position filter
isDegenerate(category, value) ==
    /\ category = "position"
    /\ value.type = "object"
    /\ (NumberIsZero(value.latitude) \/ NumberIsZero(value.longitude))

\* the entry set to the time elapsed since the last transmission
recordTransmissionElapsed(s, path, nowMs) ==
    [s EXCEPT !.lastTransmissionTimes[path] = nowMs - @, !.now = nowMs]

\* the entry written only when the record can be written to the socket
recordTransmissionIfWritable(s, path, nowMs) ==
    IF writable(s.socketClients[Classification[path]])
    THEN [s EXCEPT !.lastTransmissionTimes[path] = nowMs, !.now = nowMs]
    ELSE [s EXCEPT !.now = nowMs]

\* processValueObj: lastTransmissionTimes[path] = Date.now()
recordTransmission(s, path, nowMs) ==
    [s EXCEPT !.lastTransmissionTimes[path] = nowMs, !.now = nowMs]

\* the entry updated before shouldTransmit is asked
throttleGateRecordFirst(s, path, category, drift) ==
    LET seen == [s EXCEPT !.last = s.lastTransmissionTimes[path], !.at = s.now]
    IN  IF ~shouldTransmit(s, path, category)
        THEN [recordTransmission(seen, path, s.now + drift) EXCEPT !.stage = "throttled"]
        ELSE [recordTransmission(seen, path, s.now + drift) EXCEPT !.stage = "forwarded"]

\* processValueObj: the throttle check and the update of the path's entry;
\* drift is the time that passes between the two reads of Date.now()
throttleGate(s, path, category, drift) ==
    LET seen == [s EXCEPT !.last = s.lastTransmissionTimes[path], !.at = s.now]
    IN  IF ~shouldTransmit(s, path, category)
        THEN [seen EXCEPT !.stage = "throttled"]
        ELSE [recordTransmission(seen, path, s.now + drift) EXCEPT !.stage = "forwarded"]

\* processValueObj: const measurementData = { path, time, value, source }
measurementData(valueObj, nowMs) ==
    [path |-> valueObj.path, time |-> timestampMs(valueObj.timestamp, nowMs),
     value |-> valueObj.value]

\* function processValueObj(valueObj), the body of its try block
processValueObjBody(s, valueObj, drift) ==
    IF valueObj = NullValueObj THEN [s EXCEPT !.thrown = TRUE, !.stage = "threw"]
    ELSE
    LET path == valueObj.path
        value == valueObj.value
    IN  IF path = "" \/ value.type = "undefined" \/ Falsy(valueObj.timestamp)
        THEN [s EXCEPT !.stage = "invalid"]
        ELSE
        LET category == Classification[path]
        IN  IF category = "dump" THEN [s EXCEPT !.stage = "dump"]
            ELSE IF isDegenerate(category, value)
            THEN [s EXCEPT !.stage = "degenerate"]
            ELSE IF s.options = UndefinedOptions
            THEN [s EXCEPT !.thrown = TRUE, !.stage = "threw"]
            ELSE
            LET s1 == throttleGate(s, path, category, drift)
            IN  IF s1.stage = "throttled" THEN s1
                ELSE writeToSocket(s1, category, measurementData(valueObj, s1.now))

\* processValueObj without its try/catch
processValueObjNoCatch(s, valueObj, drift) == processValueObjBody(s, valueObj, drift)

\* function processValueObj(valueObj)
processValueObj(s, valueObj, drift) == Caught(processValueObjBody(s, valueObj, drift))

----------------------------------------------------------------------------
\* connectToSocket without its isShuttingDown guard
connectToSocketUnguarded(s, category) ==
    [s EXCEPT !.socketClients[category] = "connecting",
              !.detached[category] = Detach(@, s.socketClients[category]),
              !.created = @ \cup {category}]

\* function connectToSocket(category)
connectToSocket(s, category) ==
    IF s.isShuttingDown THEN s
    ELSE [s EXCEPT !.socketClients[category] = "connecting",
                   !.detached[category] = Detach(@, s.socketClients[category]),
                   !.created = @ \cup {category}]

\* scheduleReconnection without the test of reconnectTimers[category]
scheduleReconnectionAlways(s, category) ==
    IF s.isShuttingDown THEN s
    ELSE [s EXCEPT !.reconnectTimers[category] = "timeout",
                   !.pendingTimers[category] = @ + 1,
                   !.armed = @ \cup {category}]

\* function scheduleReconnection(category): the guard and setTimeout
scheduleReconnection(s, category) ==
    IF s.isShuttingDown \/ s.reconnectTimers[category] # Null THEN s
    ELSE [s EXCEPT !.reconnectTimers[category] = "timeout",
                   !.pendingTimers[category] = @ + 1,
                   !.armed = @ \cup {category}]

\* the callback without reconnectTimers[category] = null
reconnectCallbackKeepsHandle(s, category) ==
    IF ~s.isShuttingDown THEN connectToSocket(s, category) ELSE s

\* the callback given to setTimeout in scheduleReconnection
reconnectCallback(s, category) ==
    LET s1 == [s EXCEPT !.reconnectTimers[category] = Null]
    IN  IF ~s1.isShuttingDown THEN connectToSocket(s1, category) ELSE s1

\* a 'close' handler that reconnects the one socket of the earlier version of
\* the plugin
closeHandlerSingle(s, category) ==
    IF ~s.isShuttingDown THEN scheduleReconnection(s, "sensor") ELSE s

\* a 'close' handler that only logs
closeHandlerLogOnly(s, category) == s

\* the 'close' handler registered in connectToSocket
closeHandler(s, category) ==
    IF ~s.isShuttingDown THEN scheduleReconnection(s, category) ELSE s

\* Object.keys(SOCKET_CONFIG).forEach(category => connectToSocket(category))
RECURSIVE connectAll(_, _)
connectAll(s, i) ==
    IF i > Len(SOCKET_CONFIG) THEN s
    ELSE connectAll(connectToSocket(s, SOCKET_CONFIG[i]), i + 1)

\* function subscribeToDeltas(); ok = FALSE when getSelfBus or onValue throws
subscribeToDeltas(s, ok) ==
    IF ok THEN [s EXCEPT !.subscribers = @ + 1, !.deltaStreamUnsubscribe = "closure"]
    ELSE s

\* plugin.start(options): plugin.options = options || {}
start(s, options, ok) ==
    subscribeToDeltas(
        connectAll([s EXCEPT !.options = IF options = UndefinedOptions
                                         THEN NoOptions ELSE options],
                   1),
        ok)

\* plugin.stop: the loop clearing the reconnection timers; clearTimeout cancels
\* the timeout the handle refers to
RECURSIVE clearTimers(_, _)
clearTimers(s, i) ==
    IF i > Len(SOCKET_CONFIG) THEN s
    ELSE LET c == SOCKET_CONFIG[i]
         IN  clearTimers(IF s.reconnectTimers[c] # Null
                         THEN [s EXCEPT !.reconnectTimers[c] = Null,
                                        !.pendingTimers[c] = IF @ > 0 THEN @ - 1 ELSE 0,
                                        !.stopped = @ \cup {"clearTimeout"}]
                         ELSE s, i + 1)

\* the loop destroying the sockets without socketClients[category] = null
RECURSIVE destroyAllKeepHandle(_, _)
destroyAllKeepHandle(s, i) ==
    IF i > Len(SOCKET_CONFIG) THEN s
    ELSE LET c == SOCKET_CONFIG[i]
             old == s.socketClients[c]
         IN  destroyAllKeepHandle(
                 IF old # Null
                 THEN [s EXCEPT !.socketClients[c] = IF old \in LiveStates
                                                     THEN "destroyed" ELSE old,
                                !.stopped = @ \cup {"destroy"}]
                 ELSE s, i + 1)

\* plugin.stop: the loop destroying the sockets; destroy() on a socket that is
\* already destroyed or closed changes nothing
RECURSIVE destroyAll(_, _)
destroyAll(s, i) ==
    IF i > Len(SOCKET_CONFIG) THEN s
    ELSE LET c == SOCKET_CONFIG[i]
             old == s.socketClients[c]
         IN  destroyAll(IF old # Null
                        THEN [s EXCEPT !.socketClients[c] = Null,
                                       !.detached[c] =
                                           Detach(@, IF old \in LiveStates
                                                     THEN "destroyed" ELSE old),
                                       !.stopped = @ \cup {"destroy"}]
                        ELSE s, i + 1)

\* plugin.stop: deltaStreamUnsubscribe(); offAll tells whether off() removes
\* every registration of the callback or one of them
unsubscribe(s, offAll) ==
    IF s.deltaStreamUnsubscribe # Null
    THEN [s EXCEPT !.subscribers = IF offAll \/ @ = 0 THEN 0 ELSE @ - 1,
                   !.deltaStreamUnsubscribe = Null,
                   !.stopped = @ \cup {"deltaStreamUnsubscribe"}]
    ELSE s

\* plugin.stop
stop(s, offAll) ==
    LET s1 == destroyAll(unsubscribe(clearTimers([s EXCEPT !.isShuttingDown = TRUE], 1),
                                     offAll), 1)
    IN  [s1 EXCEPT !.lastTransmissionTimes = [p \in Paths |-> 0]]

----------------------------------------------------------------------------
Commit(s) ==
    /\ isShuttingDown' = s.isShuttingDown
    /\ socketClients' = s.socketClients
    /\ detached' = s.detached
    /\ reconnectTimers' = s.reconnectTimers
    /\ pendingTimers' = s.pendingTimers
    /\ deltaStreamUnsubscribe' = s.deltaStreamUnsubscribe
    /\ subscribers' = s.subscribers
    /\ lastTransmissionTimes' = s.lastTransmissionTimes
    /\ pluginOptions' = s.options
    /\ now' = s.now

\* what lastEvent records of a handler that ran from the current state to s;
\* again tells a plugin.stop that directly follows a plugin.stop
Event(name, category, path, s) ==
    [name |-> name, category |-> category, path |-> path,
     created |-> s.created, armed |-> s.armed, stopped |-> s.stopped,
     again |-> name = "stop" /\ lastEvent.name = "stop",
     timerWasPending |-> IF category \in Categories
                         THEN reconnectTimers[category] # Null ELSE FALSE,
     wasShuttingDown |-> isShuttingDown,
     value |-> [type |-> "undefined"], timestamp |-> Undefined,
     stage |-> s.stage, writes |-> s.writes, thrown |-> s.thrown,
     failed |-> s.failed,
     last |-> s.last, at |-> s.at,
     undelivered |-> IF name = "stop" THEN {} ELSE lastEvent.undelivered]

Init ==
    /\ isShuttingDown = FALSE
    /\ socketClients = [c \in Categories |-> Null]
    /\ detached = [c \in Categories |-> NoDetached]
    /\ reconnectTimers = [c \in Categories |-> Null]
    /\ pendingTimers = [c \in Categories |-> 0]
    /\ deltaStreamUnsubscribe = Null
    /\ subscribers = 0
    /\ lastTransmissionTimes = [p \in Paths |-> 0]
    /\ pluginOptions = UndefinedOptions
    /\ now = Now0
    /\ starts = 0
    /\ lastEvent = [name |-> "init", category |-> Null, path |-> Null,
                    created |-> {}, armed |-> {}, stopped |-> {}, again |-> FALSE,
                    timerWasPending |-> FALSE,
                    wasShuttingDown |-> FALSE,
                    value |-> [type |-> "undefined"], timestamp |-> Undefined,
                    stage |-> Null, writes |-> <<>>,
                    thrown |-> FALSE, failed |-> FALSE, last |-> 0, at |-> 0,
                    undelivered |-> {}]

\* the host calls plugin.start(options)
StartCall(options, ok) ==
    /\ LET s == start(State, options, ok)
       IN  Commit(s) /\ lastEvent' = Event("start", Null, Null, s)
    /\ starts' = starts + 1

\* the host starts the plugin, again while it runs or after it was stopped
Start ==
    /\ starts < MaxStarts
    /\ StartCall(UndefinedOptions, TRUE)

\* the host starts the plugin once
FirstStart ==
    /\ starts = 0
    /\ \E options \in Options, ok \in BOOLEAN : StartCall(options, ok)

\* the host calls plugin.stop()
Stop ==
    /\ \E offAll \in BOOLEAN :
          LET s == stop(State, offAll)
          IN  Commit(s) /\ lastEvent' = Event("stop", Null, Null, s)
    /\ UNCHANGED starts

\* 'connect' is emitted on the socket socketClients[c] refers to
ConnectClient(c) ==
    /\ socketClients[c] = "connecting"
    /\ LET s == [State EXCEPT !.socketClients[c] = "connected"]
       IN  Commit(s) /\ lastEvent' = Event("connect", c, Null, s)
    /\ UNCHANGED starts

\* 'error' is emitted on the referenced socket: the handler logs, the runtime
\* destroys the socket and will emit 'close'
ErrorClient(c) ==
    /\ socketClients[c] \in LiveStates
    /\ LET s == [State EXCEPT !.socketClients[c] = "destroyed"]
       IN  Commit(s) /\ lastEvent' = Event("error", c, Null, s)
    /\ UNCHANGED starts

\* 'error' is emitted on a socket that is no longer referenced
ErrorDetached(c) ==
    /\ detached[c]["open"] > 0
    /\ LET s == [State EXCEPT !.detached[c]["open"] = @ - 1,
                              !.detached[c]["destroyed"] = @ + 1]
       IN  Commit(s) /\ lastEvent' = Event("error", c, Null, s)
    /\ UNCHANGED starts

\* 'close' is emitted on the referenced socket: after an error or, from
\* "connected", when the peer closed the connection
CloseClient(c) ==
    /\ socketClients[c] \in {"connected", "destroyed"}
    /\ LET s == closeHandler([State EXCEPT !.socketClients[c] = "closed"], c)
       IN  Commit(s) /\ lastEvent' = Event("close", c, Null, s)
    /\ UNCHANGED starts

\* 'close' is emitted on a socket that is no longer referenced: after an error
\* or destroy(), or when the peer closed the connection
CloseDetached(c) ==
    /\ \E st \in {"open", "destroyed"} :
          /\ detached[c][st] > 0
          /\ LET s == closeHandler([State EXCEPT !.detached[c][st] = @ - 1], c)
             IN  Commit(s) /\ lastEvent' = Event("close", c, Null, s)
    /\ UNCHANGED starts

\* an armed reconnect timeout of category c fires
TimerFire(c) ==
    /\ pendingTimers[c] > 0
    /\ LET s == reconnectCallback([State EXCEPT !.pendingTimers[c] = @ - 1], c)
       IN  Commit(s) /\ lastEvent' = Event("timer", c, Null, s)
    /\ UNCHANGED starts

\* a millisecond passes
Tick(limit) ==
    /\ now < Now0 + limit
    /\ LET s == [State EXCEPT !.now = @ + 1]
       IN  Commit(s) /\ lastEvent' = Event("tick", Null, Null, s)
    /\ UNCHANGED starts

\* the value stream delivers one of values to a registration of processValueObj;
\* lastEvent keeps the value and the timestamp delivered when keep is set
DeliverOf(values, limit, keep) ==
    /\ subscribers > 0
    /\ \E valueObj \in values, drift \in 0..1 :
          /\ now + drift <= Now0 + limit
          /\ LET s == processValueObj(State, valueObj, drift)
                 path == IF valueObj = NullValueObj THEN Null ELSE valueObj.path
                 category == IF path \in Paths THEN Classification[path] ELSE Null
                 value == IF valueObj = NullValueObj \/ ~keep
                          THEN [type |-> "undefined"] ELSE valueObj.value
                 timestamp == IF valueObj = NullValueObj \/ ~keep
                              THEN Undefined ELSE valueObj.timestamp
             IN  /\ Commit(s)
                 /\ lastEvent' = [Event("value", category, path, s)
                                     EXCEPT !.value = value, !.timestamp = timestamp]
    /\ UNCHANGED starts

\* the value stream delivers a raw value
Deliver(limit) == DeliverOf(RawValues, limit, FALSE)

\* the value stream delivers a value with one of the timestamps or a
\* navigation.position with one of the values
DeliverObserved(limit) == DeliverOf(ObservedValues, limit, TRUE)

\* the value stream delivers a value that reaches the throttle gate;
\* lastEvent.undelivered keeps the paths whose entry in lastTransmissionTimes
\* was set by a record that was not written to a socket
DeliverForwardable(limit) ==
    /\ subscribers > 0
    /\ \E valueObj \in ForwardableValues, drift \in 0..1 :
          /\ now + drift <= Now0 + limit
          /\ LET s == processValueObj(State, valueObj, drift)
                 path == valueObj.path
                 undelivered ==
                     IF s.stage # "forwarded" THEN lastEvent.undelivered
                     ELSE IF s.writes = <<>> THEN lastEvent.undelivered \cup {path}
                     ELSE lastEvent.undelivered \ {path}
             IN  /\ Commit(s)
                 /\ lastEvent' = [Event("value", Classification[path], path, s)
                                     EXCEPT !.undelivered = undelivered]
    /\ UNCHANGED starts

SocketEvent ==
    \E c \in Categories :
        ConnectClient(c) \/ ErrorClient(c) \/ CloseClient(c) \/ CloseDetached(c)

DetachedSocketEvent == \E c \in Categories : ErrorDetached(c)

TimerEvent == \E c \in Categories : TimerFire(c)

\* The plugin as the host runs it: started once, fed by the value stream, the
\* socket events and the timers; the values arrive within one millisecond
Next ==
    \/ FirstStart
    \/ Stop
    \/ SocketEvent
    \/ TimerEvent
    \/ Deliver(0)

Spec == Init /\ [][Next]_vars

\* The connections alone, with the plugin started again while it runs or after
\* it was stopped
NextReconnect ==
    \/ Start
    \/ Stop
    \/ SocketEvent
    \/ DetachedSocketEvent
    \/ TimerEvent

SpecReconnect == Init /\ [][NextReconnect]_vars

\* The throttle gate alone, over a longer stretch of time
NextThrottle ==
    \/ FirstStart
    \/ Stop
    \/ Tick(MaxElapsed)
    \/ Deliver(MaxElapsed)

SpecThrottle == Init /\ [][NextThrottle]_vars

\* The position filter and the normalisation of the timestamps
NextNormalize ==
    \/ FirstStart
    \/ Stop
    \/ Tick(MaxElapsed)
    \/ DeliverObserved(MaxElapsed)

SpecNormalize == Init /\ [][NextNormalize]_vars

\* Values arriving while the connections come and go and the clock advances
NextOutage ==
    \/ FirstStart
    \/ Stop
    \/ SocketEvent
    \/ TimerEvent
    \/ Tick(MaxElapsed)
    \/ DeliverForwardable(MaxElapsed)

SpecOutage == Init /\ [][NextOutage]_vars

\* The plugin started once, with the timers of the event loop firing
NextLive ==
    \/ FirstStart
    \/ Stop
    \/ SocketEvent
    \/ TimerEvent

SpecLive ==
    /\ Init
    /\ [][NextLive]_vars
    /\ \A c \in Categories : WF_vars(TimerFire(c))

----------------------------------------------------------------------------
\* Properties

\* sockets of category c that are connecting or connected
LiveSockets(c) ==
    (IF socketClients[c] \in LiveStates THEN 1 ELSE 0)
    + detached[c]["open"]

\* the program state a handler can change, lastEvent and starts apart
programVars ==
    <<isShuttingDown, socketClients, detached, reconnectTimers, pendingTimers,
      deltaStreamUnsubscribe, subscribers, lastTransmissionTimes, pluginOptions, now>>

connectionVars == <<socketClients, detached, reconnectTimers, pendingTimers>>

\* the paths of the model that match a rule of the list of category
MatchingPaths(category) ==
    {p \in Paths : SomePatternMatches(PatternsOf(category), p)}

DumpPaths == MatchingPaths("dump")

UnmatchedPaths ==
    Paths \ (MatchingPaths("dump") \cup MatchingPaths("state")
             \cup MatchingPaths("position") \cup MatchingPaths("sensor"))

\* C1: each category has at most one armed reconnect timeout, and a 'close'
\* handled while the category's timer is pending arms none and leaves the
\* pending one in place.
C1_OneTimerPerCategory ==
    \A c \in Categories :
        /\ pendingTimers[c] <= 1
        /\ (reconnectTimers[c] # Null) <=> (pendingTimers[c] = 1)
        /\ (lastEvent.name = "close" /\ lastEvent.category = c
            /\ lastEvent.timerWasPending /\ ~isShuttingDown)
           => (lastEvent.armed = {} /\ pendingTimers[c] = 1
               /\ reconnectTimers[c] # Null)

C1_Witness ==
    /\ lastEvent.name = "close"
    /\ lastEvent.timerWasPending
    /\ ~isShuttingDown
    /\ pendingTimers[lastEvent.category] = 1

\* C2: once stop() has run, no timeout is armed, the flag stays set, and
\* stop() and every later handler creates no connection and arms no timeout.
C2_ShutdownIsPermanent ==
    /\ isShuttingDown =>
          /\ \A c \in Categories : pendingTimers[c] = 0 /\ reconnectTimers[c] = Null
          /\ lastEvent.created = {}
          /\ lastEvent.armed = {}
    /\ lastEvent.wasShuttingDown => isShuttingDown

\* plugin.start called after plugin.stop
C2_Witness ==
    /\ lastEvent.wasShuttingDown
    /\ lastEvent.name = "start"

\* C3: each category has at most one socket that is connecting or connected.
C3_OneLiveConnection == \A c \in Categories : LiveSockets(c) <= 1

\* C4: a value that reaches the throttle gate is forwarded exactly when the
\* time since the path's last recorded transmission (0 without an entry) is at
\* least the category's interval, and a forwarded one records the current time.
C4_ThrottleBoundary ==
    [][(lastEvent'.name = "value" /\ lastEvent'.stage \in {"throttled", "forwarded"})
       => LET p == lastEvent'.path
              I == sampleRate(pluginOptions, lastEvent'.category)
          IN  /\ (lastEvent'.stage = "forwarded")
                     <=> (now - lastTransmissionTimes[p] >= I)
              /\ (now - lastTransmissionTimes[p] < I)
                     => lastTransmissionTimes'[p] = lastTransmissionTimes[p]
              /\ (lastEvent'.stage = "forwarded")
                     => lastTransmissionTimes'[p] = now']_vars

\* an event at exactly t + I, t the time of the path's last transmission
C4_Witness ==
    /\ lastEvent.name = "value"
    /\ lastEvent.stage = "forwarded"
    /\ lastEvent.last >= Now0
    /\ lastEvent.at - lastEvent.last = sampleRate(pluginOptions, lastEvent.category)

\* C5: every socket.write of processValueObj is made on a connected socket.
C5_WritesOnlyWhenConnected ==
    lastEvent.name = "value"
        => \A i \in 1..Len(lastEvent.writes) : lastEvent.writes[i].socket = "connected"

\* C6: processValueObj returns normally for every raw value, it changes no
\* socket and no timer, and it writes nothing to a category whose socket is
\* closed or absent.
C6_IngestionNeverThrows ==
    [][lastEvent'.name = "value"
       => /\ ~lastEvent'.thrown
          /\ UNCHANGED connectionVars
          /\ \A i \in 1..Len(lastEvent'.writes) :
                 socketClients[lastEvent'.writes[i].category] \notin {"closed", Null}]_vars

\* a value that passed the throttle gate while its category's socket was closed
C6_Witness ==
    /\ lastEvent.name = "value"
    /\ lastEvent.stage = "forwarded"
    /\ socketClients[lastEvent.category] = "closed"
    /\ lastEvent.writes = <<>>
    /\ ~lastEvent.thrown

\* C7: a path that matches a dump rule is classified 'dump', also when it
\* matches a rule of another list, and a value with such a path is not written.
C7_DumpPrecedence ==
    /\ \A p \in DumpPaths : Classification[p] = "dump"
    /\ (lastEvent.name = "value" /\ lastEvent.path \in DumpPaths)
          => (lastEvent.writes = <<>> /\ lastEvent.stage \in {"invalid", "dump"})

\* a discarded value whose path matches a dump rule and a sensor rule
C7_Witness ==
    /\ lastEvent.name = "value"
    /\ lastEvent.path \in DumpPaths \cap MatchingPaths("sensor")
    /\ lastEvent.stage = "dump"

\* C8: a path that matches no rule is classified 'dump', and processing a
\* value with such a path writes nothing and changes no state.
C8_UnclassifiedIsDump ==
    [][(lastEvent'.name = "value" /\ lastEvent'.path \in UnmatchedPaths)
       => /\ lastEvent'.category = "dump"
          /\ lastEvent'.writes = <<>>
          /\ lastEvent'.stage \in {"invalid", "dump"}
          /\ UNCHANGED programVars]_vars

C8_Witness ==
    /\ lastEvent.name = "value"
    /\ lastEvent.path \in UnmatchedPaths
    /\ lastEvent.stage = "dump"

\* C9: one invocation of processValueObj makes at most one write, and a write
\* goes to the socket of the category of the value's path.
C9_AtMostOneWrite ==
    lastEvent.name = "value"
        => /\ Len(lastEvent.writes) <= 1
           /\ \A i \in 1..Len(lastEvent.writes) :
                  /\ lastEvent.writes[i].path = lastEvent.path
                  /\ lastEvent.writes[i].category = lastEvent.category
                  /\ lastEvent.category \in Categories

C9_Witness ==
    /\ lastEvent.name = "value"
    /\ Len(lastEvent.writes) = 1
    /\ lastEvent.writes[1].category = "position"

\* C10: whenever a category's socket has closed while the plugin is not
\* shutting down, a new connection for that category is made, unless stop() is
\* called first.
C10_ReconnectsAfterClose ==
    \A c \in Categories :
        (socketClients[c] = "closed" /\ ~isShuttingDown)
            ~> (socketClients[c] = "connecting" \/ isShuttingDown)

\* a timer that fired after a close and made the new connection
C10_Witness ==
    /\ lastEvent.name = "timer"
    /\ lastEvent.created = {lastEvent.category}
    /\ socketClients[lastEvent.category] = "connecting"

\* C11 as stated: no step, stop() included, lowers the last-transmission time
\* of a path (0 for a path without an entry).
C11_ThrottleTimesNeverDecrease ==
    [][\A p \in Paths : lastTransmissionTimes'[p] >= lastTransmissionTimes[p]]_vars

\* C11, amended: stop() removes every entry; no other step lowers the
\* last-transmission time of a path, and an entry changes otherwise only when
\* a value of that path is forwarded, to the current time.
C11_ThrottleTimesResetOnlyByStop ==
    [][/\ lastEvent'.name = "stop"
          => \A p \in Paths : lastTransmissionTimes'[p] = 0
       /\ lastEvent'.name # "stop"
          => \A p \in Paths :
                /\ lastTransmissionTimes'[p] >= lastTransmissionTimes[p]
                /\ lastTransmissionTimes'[p] # lastTransmissionTimes[p]
                   => /\ lastEvent'.name = "value"
                      /\ lastEvent'.stage = "forwarded"
                      /\ lastEvent'.path = p
                      /\ lastTransmissionTimes'[p] = now']_vars

\* a forwarded value that replaced an earlier entry of its path by a later time
C11_Witness ==
    /\ lastEvent.name = "value"
    /\ lastEvent.stage = "forwarded"
    /\ lastEvent.last >= Now0
    /\ lastTransmissionTimes[lastEvent.path] > lastEvent.last

\* C12: when a call of start() has returned, every configured category has a
\* connection made by that call, connecting or connected, and the ingestion
\* callback is registered.
C12_StartConnectsAll ==
    lastEvent.name = "start"
        => /\ lastEvent.created = Categories
           /\ \A c \in Categories : socketClients[c] \in LiveStates
           /\ subscribers > 0
           /\ deltaStreamUnsubscribe # Null

\* C13: a forwarded value whose timestamp is a string that is no date, or is
\* neither a string nor a number, is written with the current time in epoch
\* milliseconds as its time, and it is written whenever the socket of its
\* category accepts writes.
C13_FallbackToNow ==
    (/\ lastEvent.name = "value"
     /\ lastEvent.stage = "forwarded"
     /\ \/ lastEvent.timestamp.t \notin {"string", "number"}
        \/ /\ lastEvent.timestamp.t = "string"
           /\ DateGetTime(lastEvent.timestamp.s) = NaN)
        => /\ writable(socketClients[lastEvent.category])
                 => Len(lastEvent.writes) = 1
           /\ \A i \in 1..Len(lastEvent.writes) :
                 lastEvent.writes[i].time = FromInt(now)

\* C14: a value with a numeric timestamp ts is written with time floor(ts)
\* when ts > 10^12 and with time floor(ts * 1000) otherwise; 1694458123
\* becomes 1694458123000 and 1694458123456 stays as it is.
C14_NumericTimestamps ==
    (lastEvent.name = "value" /\ lastEvent.timestamp.t = "number")
        => \A i \in 1..Len(lastEvent.writes) :
              LET ts == lastEvent.timestamp
                  time == lastEvent.writes[i].time
                  thousandths == ts.lo * 1000 + ts.frac
              IN  /\ time.t = "number" /\ time.frac = 0
                  /\ IF \/ ts.hi > Million
                        \/ ts.hi = Million /\ (ts.lo > 0 \/ ts.frac > 0)
                     THEN time.hi = ts.hi /\ time.lo = ts.lo
                     ELSE /\ time.hi = ts.hi * 1000 + thousandths \div Million
                          /\ time.lo = thousandths % Million
                  /\ ts = Number(1694, 458123, 0)
                        => time = Number(1694458, 123000, 0)
                  /\ ts = Number(1694458, 123456, 0)
                        => time = Number(1694458, 123456, 0)

\* a written value whose timestamp is 10^12 exactly, taken as seconds
C14_Witness ==
    /\ lastEvent.name = "value"
    /\ lastEvent.timestamp = Threshold
    /\ Len(lastEvent.writes) = 1
    /\ lastEvent.writes[1].time = Number(Million * 1000, 0, 0)

\* C15: a value of a position path that is an object with latitude 0 or
\* longitude 0 is dropped by the position filter and never written; one with
\* two non-zero coordinates reaches the throttle gate.
C15_DegeneratePositionDropped ==
    (/\ lastEvent.name = "value"
     /\ lastEvent.category = "position"
     /\ lastEvent.value.type = "object")
        => LET latitude == lastEvent.value.latitude
               longitude == lastEvent.value.longitude
           IN  /\ (latitude = Num(0) \/ longitude = Num(0))
                     => lastEvent.stage = "degenerate" /\ lastEvent.writes = <<>>
               /\ (/\ latitude.t = "number" /\ latitude.n # 0
                   /\ longitude.t = "number" /\ longitude.n # 0)
                     => lastEvent.stage \in {"throttled", "forwarded"}

\* {latitude: 45, longitude: 0} dropped after a position had been forwarded
C15_Witness ==
    /\ lastEvent.name = "value"
    /\ lastEvent.value = ObjectValue(Num(45), Num(0), FALSE)
    /\ lastEvent.stage = "degenerate"
    /\ lastTransmissionTimes["navigation.position"] >= Now0

\* C16: after stop() the flag is set and no timer, connection handle or
\* subscription handle is left; a stop() that directly follows a stop() changes
\* nothing and calls neither clearTimeout nor the unsubscribe function nor
\* destroy.
C16_StopIsIdempotent ==
    [][lastEvent'.name = "stop"
       => /\ isShuttingDown'
          /\ \A c \in Categories :
                /\ pendingTimers'[c] = 0 /\ reconnectTimers'[c] = Null
                /\ socketClients'[c] = Null
          /\ deltaStreamUnsubscribe' = Null
          /\ lastEvent.name = "stop"
                => UNCHANGED programVars /\ lastEvent'.stopped = {}]_vars

\* a second stop() right after one that had sockets to destroy
C16_Witness ==
    /\ lastEvent.again
    /\ \A c \in Categories : detached[c]["destroyed"] > 0

\* C17: a 'connect', 'error' or 'close' event of a socket of one category, and
\* the arming and the firing of that category's reconnect timer, leave the
\* handle, the sockets and the timer of every other category as they were.
C17_CategoriesIndependent ==
    [][lastEvent'.name \in {"connect", "error", "close", "timer"}
       => \A c \in Categories \ {lastEvent'.category} :
             /\ socketClients'[c] = socketClients[c]
             /\ detached'[c] = detached[c]
             /\ reconnectTimers'[c] = reconnectTimers[c]
             /\ pendingTimers'[c] = pendingTimers[c]
             /\ c \notin lastEvent'.created
             /\ c \notin lastEvent'.armed]_vars

\* a 'close' that armed the timer of its category while the two other
\* categories were in different states
C17_Witness ==
    /\ lastEvent.name = "close"
    /\ lastEvent.armed = {lastEvent.category}
    /\ \E c, d \in Categories \ {lastEvent.category} :
          /\ socketClients[c] = "connected"
          /\ reconnectTimers[d] # Null

\* C18 as stated: a record whose serialization fails leaves the connections
\* and the timers as they were and has no effect on the handling of later
\* records: the throttle map, which alone decides it, is as if the record had
\* never been processed.
C18_FailedRecordLeavesNoTrace ==
    [][(lastEvent'.name = "value" /\ lastEvent'.failed)
       => /\ UNCHANGED connectionVars
          /\ lastTransmissionTimes' = lastTransmissionTimes]_vars

\* C18, amended: a record whose serialization fails is dropped without an
\* exception, the connections and the timers and the throttle entries of the
\* other paths are as they were, and the record counts as a transmission of
\* its own path: the path's entry is the time the record was processed.
C18_FailedRecordCountsAsTransmission ==
    [][(lastEvent'.name = "value" /\ lastEvent'.failed)
       => /\ lastEvent'.writes = <<>>
          /\ ~lastEvent'.thrown
          /\ UNCHANGED connectionVars
          /\ \A p \in Paths \ {lastEvent'.path} :
                lastTransmissionTimes'[p] = lastTransmissionTimes[p]
          /\ lastTransmissionTimes'[lastEvent'.path] = now'
          /\ lastEvent'.stage = "forwarded"]_vars

\* a record that failed after an earlier record of its path had been forwarded
C18_Witness ==
    /\ lastEvent.name = "value"
    /\ lastEvent.failed
    /\ lastEvent.last >= Now0
    /\ lastTransmissionTimes[lastEvent.path] > lastEvent.last

\* C19: a raw value dropped before forwarding (invalid, classified dump,
\* degenerate position or throttled) causes no write and leaves the throttle
\* map, every connection, every timer and the rest of the state as they were.
C19_DroppedValueChangesNothing ==
    [][(/\ lastEvent'.name = "value"
        /\ lastEvent'.stage \in {"invalid", "dump", "degenerate", "throttled"})
       => /\ lastEvent'.writes = <<>>
          /\ UNCHANGED programVars]_vars

\* a value throttled some time after the last transmission of its path, whose
\* entry is the one it was
C19_Witness ==
    /\ lastEvent.name = "value"
    /\ lastEvent.stage = "throttled"
    /\ lastEvent.last >= Now0
    /\ lastEvent.at > lastEvent.last
    /\ lastTransmissionTimes[lastEvent.path] = lastEvent.last

\* for each path the first of state, position, sensor with a rule that
\* matches it, 'dump' when there is none
FirstMatching ==
    [p \in Paths |->
        IF p \in MatchingPaths("state") THEN "state"
        ELSE IF p \in MatchingPaths("position") THEN "position"
        ELSE IF p \in MatchingPaths("sensor") THEN "sensor"
        ELSE "dump"]

\* the paths that match a state rule and a sensor rule
StateAndSensorPaths == MatchingPaths("state") \cap MatchingPaths("sensor")

PositionAndSensorPaths == MatchingPaths("position") \cap MatchingPaths("sensor")

\* categorizeData on the paths that match no dump rule
ClassifiedInOrder ==
    /\ \A p \in Paths \ DumpPaths : Classification[p] = FirstMatching[p]
    /\ "environment.mode" \in StateAndSensorPaths
    /\ Classification["environment.mode"] = "state"
    /\ "navigation.position" \in PositionAndSensorPaths
    /\ Classification["navigation.position"] = "position"

\* C20: a path that matches no dump rule is classified as the first of state,
\* position, sensor that has a matching rule: environment.mode, which matches
\* a state rule and a sensor rule, is state, navigation.position is position,
\* and a value is written to the socket of no other category.
C20_FixedCategoryOrder ==
    /\ ClassifiedInOrder
    /\ lastEvent.name = "value"
          => \A i \in 1..Len(lastEvent.writes) :
                lastEvent.writes[i].category = FirstMatching[lastEvent.writes[i].path]

\* a value whose path matches a state rule and a sensor rule, written to the
\* state socket
C20_Witness ==
    /\ lastEvent.name = "value"
    /\ lastEvent.path \in StateAndSensorPaths
    /\ Len(lastEvent.writes) = 1
    /\ lastEvent.writes[1].category = "state"

\* C21: with plugin.start called once, a category whose reconnect timer is
\* pending has no socket that is connecting or connected: the socket it refers
\* to has closed.
C21_NoTimerWithLiveSocket ==
    \A c \in Categories :
        (reconnectTimers[c] # Null \/ pendingTimers[c] > 0)
            => /\ LiveSockets(c) = 0
               /\ socketClients[c] = "closed"

\* a timer pending for one category while the socket of another is connected
C21_Witness ==
    \E c, d \in Categories :
        /\ reconnectTimers[c] # Null
        /\ pendingTimers[c] = 1
        /\ socketClients[c] = "closed"
        /\ socketClients[d] = "connected"

\* C22: a value that passes the throttle gate sets its path's entry to the
\* current time whether or not the record is then written, and writes nothing
\* when the category's socket is not writable; a later value of the path that
\* arrives within the interval of that entry is suppressed: nothing is written
\* and the entry stays, also when no record of the path was delivered.
C22_DroppedWriteStillThrottles ==
    [][(lastEvent'.name = "value" /\ lastEvent'.stage \in {"throttled", "forwarded"})
       => LET p == lastEvent'.path
              c == lastEvent'.category
              I == sampleRate(pluginOptions, c)
          IN  /\ (lastEvent'.stage = "forwarded")
                     => /\ lastTransmissionTimes'[p] = now'
                        /\ ~writable(socketClients[c]) => lastEvent'.writes = <<>>
              /\ (now - lastTransmissionTimes[p] < I)
                     => /\ lastEvent'.stage = "throttled"
                        /\ lastEvent'.writes = <<>>
                        /\ lastTransmissionTimes'[p] = lastTransmissionTimes[p]]_vars

\* a value suppressed at a later time by the entry of a record of its path that
\* was dropped at a socket that had closed
C22_Witness ==
    /\ lastEvent.name = "value"
    /\ lastEvent.stage = "throttled"
    /\ lastEvent.path \in lastEvent.undelivered
    /\ lastEvent.last >= Now0
    /\ lastEvent.at > lastEvent.last
    /\ ~isShuttingDown
    /\ socketClients[lastEvent.category] = "closed"

====
